---------------------------- MODULE Spec2Model ----------------------------
(***************************************************************************)
(* Model of the image batch processor (mikelgg/imagenes).                  *)
(*                                                                         *)
(*   - the geometry of public/workers/image-processor.worker.mjs           *)
(*     (rotateImage canvas sizing, calculateGeometricInscribedRectangle),  *)
(*   - the pipeline of processImage in the same worker,                    *)
(*   - the batch loop of app/page.tsx (handleProcessImages and             *)
(*     processImageInWorker) talking to the worker's onmessage handler.    *)
(*                                                                         *)
(* Angles are in tenths of a degree (0.3 degrees is 3).  Math.cos and      *)
(* Math.sin are tabulated in units of 1/Scale; on every input the model    *)
(* enumerates, the floors and ceilings computed from the table equal the   *)
(* ones IEEE doubles give; at exact multiples of 90 degrees, where the      *)
(* double value of cos(pi/2) or sin(pi) is a tiny non-zero number, the     *)
(* effect of that number on Math.ceil is modelled by CeilNoise.            *)
(***************************************************************************)
EXTENDS Integers, Sequences, FiniteSets, TLC

(***************************************************************************)
(* Bounds of the model.                                                    *)
(***************************************************************************)
\* widths and heights 1..MaxDim are enumerated, plus the sizes of BigDims
MaxDim == 4
\* shave values 0..MaxShave
MaxShave == 2
\* images per batch 1..MaxBatch
MaxBatch == 3

Scale == 1000 * 1000

Max(a, b) == IF a >= b THEN a ELSE b
Min(a, b) == IF a <= b THEN a ELSE b
Abs(a) == IF a >= 0 THEN a ELSE -a

\* Math.ceil(n / d) and Math.floor(n / d) for d > 0
CeilDiv(n, d) == -((-n) \div d)
FloorDiv(n, d) == n \div d

\* the JavaScript remainder a % n: the sign follows the dividend
JSRem(a, n) == IF a >= 0 THEN a % n ELSE -((-a) % n)

\* Math.round(n / d) for n >= 0, d > 0: halves round up
RoundDiv(n, d) == (2 * n + d) \div (2 * d)

(***************************************************************************)
(* State.                                                                  *)
(***************************************************************************)
VARIABLES
    geom,           \* the first direct call of the geometry: arguments, canvas, result
    geomAgain,      \* a second call for the same image and angle: shave, result
    DEBUG_MODE,     \* the worker runs on localhost
    pc,             \* the step of processImage that was passed last
    img,            \* the decoded ImageBitmap
    options,        \* the options of the request, as far as they were read
    workingCanvas,  \* the buffer threaded through the steps
    autoCropResult, \* what the auto-crop returned
    exportCanvas,   \* the buffer handed to convertToBlob
    trace,          \* the stages that ran, with their input and output buffers
    selectedFiles,  \* the batch: for each file whether it decodes
    consent,        \* the checkbox of the consent banner, as it stands now
    consentGiven,   \* the consent the running handleProcessImages was created with
    mainPc,         \* handleProcessImages: idle, awaiting a promise, done
    loopIndex,      \* i + 1 of the for loop: the image whose promise is awaited
    results,        \* the records pushed so far
    onmessage,      \* the image whose closure is installed as worker.onmessage
    inbox,          \* requests posted to the worker and not yet taken up
    decoding,       \* requests awaiting createImageBitmap inside the worker
    encoding,       \* requests awaiting convertToBlob inside the worker
    outbox,         \* responses posted by the worker and not yet delivered
    terminated,     \* worker.terminate() was called
    uploaded,       \* the image whose record was uploaded, 0 for none
    posted          \* every response the worker has passed to postMessage, in order

vars == <<geom, geomAgain, DEBUG_MODE, pc, img, options, workingCanvas, autoCropResult,
          exportCanvas, trace, selectedFiles, consent, consentGiven, mainPc, loopIndex,
          results, onmessage, inbox, decoding, encoding, outbox, terminated,
          uploaded, posted>>

batchVars == <<selectedFiles, consent, consentGiven, mainPc, loopIndex, results, onmessage,
               inbox, decoding, encoding, outbox, terminated, uploaded, posted>>

pipeVars == <<DEBUG_MODE, pc, img, options, workingCanvas, autoCropResult,
              exportCanvas, trace>>

(***************************************************************************)
(* Math.cos / Math.sin, tabulated.                                         *)
(***************************************************************************)
TableAngles == {0, 3, 150, 300, 450, 600, 750, 900}

CosTab(d) ==
    CASE d = 0 -> 1000000
      [] d = 3 -> 999986
      [] d = 150 -> 965926
      [] d = 300 -> 866025
      [] d = 450 -> 707107
      [] d = 600 -> 500000
      [] d = 750 -> 258819
      [] d = 900 -> 0

SinTab(d) ==
    CASE d = 0 -> 0
      [] d = 3 -> 5236
      [] d = 150 -> 258819
      [] d = 300 -> 500000
      [] d = 450 -> 707107
      [] d = 600 -> 866025
      [] d = 750 -> 965926
      [] d = 900 -> 1000000

\* an angle d >= 0 folded into the first quadrant
Reduce(d) == LET r == d % 1800 IN IF r > 900 THEN 1800 - r ELSE r

\* Math.abs(Math.cos(angleRad)), Math.abs(Math.sin(angleRad))
AbsCos(d) == CosTab(Reduce(Abs(d)))
AbsSin(d) == SinTab(Reduce(Abs(d)))

\* the signed values, for an angle in (-1800, 1800]
Cos(d) == IF Abs(d) > 900 THEN -AbsCos(d) ELSE AbsCos(d)
Sin(d) == IF d < 0 THEN -AbsSin(d) ELSE AbsSin(d)

\* an exact multiple of 90 degrees: one of the two table values is 0 while
\* the double is not
IsAxisAngle(d) == Reduce(Abs(d)) \in {0, 900}

\* floor(n * Scale / a) for n >= 0 and a >= Scale, without leaving 32 bits
FloorScaled(n, a) ==
    LET aH == a \div Scale
        aL == a % Scale
        fits(q) == n - q * aH >= CeilDiv(q * aL, Scale)
    IN  CHOOSE q \in (n \div (aH + 1))..(n \div aH) :
            fits(q) /\ ~fits(q + 1)

(***************************************************************************)
(* Geometry: rotateImage's canvas and the inscribed rectangle.             *)
(***************************************************************************)
Angles == {0, 3, 150, 300, 450, 600, 750, 900, -900, -450, 1350, 1800, 2700, 3600}
BigDims == {100, 200}
Dims == (1..MaxDim) \cup BigDims
Shaves == 0..MaxShave

\* let normalizedAngle = ((angleDegrees % 360) + 360) % 360;
\* if (normalizedAngle > 180) normalizedAngle -= 360
NormalizeAngle(angleDegrees) ==
    LET n == (JSRem(angleDegrees, 3600) + 3600) % 3600
    IN  IF n > 1800 THEN n - 3600 ELSE n

\* the largest power of two that is <= n, for n >= 1
RECURSIVE PowerOfTwoBelow(_)
PowerOfTwoBelow(n) == IF n < 2 THEN 1 ELSE 2 * PowerOfTwoBelow(n \div 2)

\* At a multiple of 90 degrees the double Math.cos(pi/2) = 6.123e-17 (or
\* Math.sin(pi) = 1.2246e-16) is not 0: the sum main * 1 + other * tiny rounds
\* to the double above main when other * tiny exceeds half a unit in the last
\* place of main, and Math.ceil then returns main + 1.  The tiny values are
\* 0.55153 and 1.10306 in units of 2^-53.
CeilNoise(main, other, angle) ==
    LET tiny == IF Reduce(Abs(angle)) = 900 THEN 55153 ELSE 110306
    IN  IF IsAxisAngle(angle) /\ other * tiny > 100000 * PowerOfTwoBelow(main)
        THEN 1 ELSE 0

\* Math.ceil(a * cos + b * sin)
ExpandedSize(a, b, angle) ==
    CeilDiv(a * AbsCos(angle) + b * AbsSin(angle), Scale)
        + (IF AbsCos(angle) = 0 THEN CeilNoise(b, a, angle)
           ELSE IF AbsSin(angle) = 0 THEN CeilNoise(a, b, angle)
           ELSE 0)

\* const margin = Math.max(20, Math.min(origWidth, origHeight) * 0.05), taken
\* twice; OffscreenCanvas truncates the sum to an integer
MarginTwice(origWidth, origHeight) == Max(40, Min(origWidth, origHeight) \div 10)

\* the background rotateImage gives the rotation canvas (clearRect)
RotationBackgroundWhite == "white"

RotationBackground == "transparent"

\* A canvas is its size, the angle its content was drawn with, what lies under
\* the drawn content (bg), the place of its origin in the rotation step's
\* canvas (ox, oy) and whether it was resampled by a resize.
\* The canvas rotateImage returns: the bitmap itself for |angle| < 0.5,
\* otherwise a cleared (transparent) canvas with the image drawn rotated
rotateImage(origWidth, origHeight, angleDegrees) ==
    LET normalizedAngle == NormalizeAngle(angleDegrees)
    IN  IF Abs(normalizedAngle) < 5
        THEN [width |-> origWidth, height |-> origHeight, angle |-> 0,
              bg |-> "transparent", ox |-> 0, oy |-> 0, scaled |-> FALSE]
        ELSE [width |-> ExpandedSize(origWidth, origHeight, normalizedAngle)
                          + MarginTwice(origWidth, origHeight),
              height |-> ExpandedSize(origHeight, origWidth, normalizedAngle)
                          + MarginTwice(origWidth, origHeight),
              angle |-> normalizedAngle,
              bg |-> RotationBackground, ox |-> 0, oy |-> 0, scaled |-> FALSE]

\* createCanvasFromImageBitmap: a cleared canvas of the bitmap's size
createCanvasFromImageBitmap(w, h) ==
    [width |-> w, height |-> h, angle |-> 0, bg |-> "transparent",
     ox |-> 0, oy |-> 0, scaled |-> FALSE]

\* PASO 1 of processImage: the working canvas after the rotation step
RotationStep(w, h, rotation) ==
    IF rotation # 0
    THEN rotateImage(w, h, rotation)
    ELSE createCanvasFromImageBitmap(w, h)

\* Math.floor(dim * factor), capped by dim, where
\* factor = Math.min(w0 / (w0*cos + h0*sin), h0 / (w0*sin + h0*cos)):
\* the floor of dim * min(f1, f2) is the smaller of the two floors.
InscribedDimLargerFactor(dim, w0, h0, c, s) ==
    Min(dim, Max(FloorScaled(dim * w0, w0 * c + h0 * s),
                 FloorScaled(dim * h0, w0 * s + h0 * c)))

InscribedDim(dim, w0, h0, c, s) ==
    Min(dim, Min(FloorScaled(dim * w0, w0 * c + h0 * s),
                 FloorScaled(dim * h0, w0 * s + h0 * c)))

\* the angle-0 branch: the original size centred, minus the shave
UnrotatedRectangleShavedOnce(w0, h0, canvasWidth, canvasHeight, shavePixels) ==
    [x |-> Max(0, FloorDiv(canvasWidth - w0, 2) + shavePixels),
     y |-> Max(0, FloorDiv(canvasHeight - h0, 2) + shavePixels),
     width |-> Max(1, w0 - shavePixels),
     height |-> Max(1, h0 - shavePixels)]

UnrotatedRectangleUnshaved(w0, h0, canvasWidth, canvasHeight, shavePixels) ==
    [x |-> Max(0, FloorDiv(canvasWidth - w0, 2)),
     y |-> Max(0, FloorDiv(canvasHeight - h0, 2)),
     width |-> Max(1, w0),
     height |-> Max(1, h0)]

UnrotatedRectangle(w0, h0, canvasWidth, canvasHeight, shavePixels) ==
    [x |-> Max(0, FloorDiv(canvasWidth - w0, 2) + shavePixels),
     y |-> Max(0, FloorDiv(canvasHeight - h0, 2) + shavePixels),
     width |-> Max(1, w0 - shavePixels * 2),
     height |-> Max(1, h0 - shavePixels * 2)]

calculateGeometricInscribedRectangleLeakingShave(originalWidth, originalHeight, rotationAngle, canvasWidth, canvasHeight, shavePixels) ==
    LET normalizedAngle == Abs(JSRem(rotationAngle, 1800))
        c == AbsCos(normalizedAngle)
        s == AbsSin(normalizedAngle)
        leaked == shavePixels + (IF geom.called THEN 1 ELSE 0)
        inscribedWidth ==
            Max(1, InscribedDim(originalWidth, originalWidth, originalHeight, c, s)
                     - leaked * 2)
        inscribedHeight ==
            Max(1, InscribedDim(originalHeight, originalWidth, originalHeight, c, s)
                     - leaked * 2)
    IN  IF normalizedAngle = 0
        THEN UnrotatedRectangle(originalWidth, originalHeight,
                                canvasWidth, canvasHeight, leaked)
        ELSE [x |-> Max(0, FloorDiv(canvasWidth - inscribedWidth, 2)),
              y |-> Max(0, FloorDiv(canvasHeight - inscribedHeight, 2)),
              width |-> inscribedWidth,
              height |-> inscribedHeight]

calculateGeometricInscribedRectangle(originalWidth, originalHeight, rotationAngle, canvasWidth, canvasHeight, shavePixels) ==
    LET normalizedAngle == Abs(JSRem(rotationAngle, 1800))
        c == AbsCos(normalizedAngle)
        s == AbsSin(normalizedAngle)
        inscribedWidth ==
            Max(1, InscribedDim(originalWidth, originalWidth, originalHeight, c, s)
                     - shavePixels * 2)
        inscribedHeight ==
            Max(1, InscribedDim(originalHeight, originalWidth, originalHeight, c, s)
                     - shavePixels * 2)
    IN  IF normalizedAngle = 0
        THEN UnrotatedRectangle(originalWidth, originalHeight,
                                canvasWidth, canvasHeight, shavePixels)
        ELSE [x |-> Max(0, FloorDiv(canvasWidth - inscribedWidth, 2)),
              y |-> Max(0, FloorDiv(canvasHeight - inscribedHeight, 2)),
              width |-> inscribedWidth,
              height |-> inscribedHeight]

(***************************************************************************)
(* Pixels and the alpha scan.                                              *)
(***************************************************************************)
Transparent == [r |-> 0, g |-> 0, b |-> 0, a |-> 0]
Dark == [r |-> 40, g |-> 60, b |-> 80, a |-> 255]
Halo == [r |-> 40, g |-> 60, b |-> 80, a |-> 100]
White == [r |-> 255, g |-> 255, b |-> 255, a |-> 255]
Fills == {Dark, Halo, White}

\* widths of the transparent padding an input image comes with, 0..MaxPad
MaxPad == 2

\* An input image: fill pixels inside a frame of pad transparent pixels
\* (the whole image is transparent when the frame leaves nothing inside).
PixelAt(image, x, y) ==
    IF /\ x >= image.pad /\ x < image.width - image.pad
       /\ y >= image.pad /\ y < image.height - image.pad
    THEN image.fill
    ELSE Transparent

\* ctx.getImageData of a canvas that holds the image unrotated and unscaled;
\* what lies outside the drawn source is transparent
CanvasPixel(canvas, image, x, y) ==
    LET sx == x + canvas.ox
        sy == y + canvas.oy
    IN  IF sx >= 0 /\ sx < image.width /\ sy >= 0 /\ sy < image.height
        THEN PixelAt(image, sx, sy)
        ELSE Transparent

ImageData(canvas, image) ==
    [p \in (0..(canvas.width - 1)) \X (0..(canvas.height - 1)) |->
        CanvasPixel(canvas, image, p[1], p[2])]

SetMin(S) == CHOOSE m \in S : \A n \in S : m <= n
SetMax(S) == CHOOSE m \in S : \A n \in S : m >= n

isLightBackground(p) ==
    \/ p.r > 240 /\ p.g > 240 /\ p.b > 240
    \/ p.r > 230 /\ p.g > 220 /\ p.b > 180 /\ Abs(p.r - p.g) < 20
    \/ Abs(p.r - p.g) < 10 /\ Abs(p.g - p.b) < 10 /\ p.r > 235

\* the pixels calculateAlphaBoundingBox folds into the running min / max
IsContentPixel(p, threshold) ==
    /\ ~(p.a <= threshold)
    /\ ~(p.a < threshold)
    /\ ~(p.a < threshold + 50 /\ isLightBackground(p))

isSuspicious(p) == p.a < 150 \/ (p.r > 230 /\ p.g > 220 /\ p.b > 180)

\* suspiciousPixels / totalPixels > 0.7 over the cells of a row or column
\* (0 / 0 is NaN, which is not greater)
MostlySuspicious(data, cells) ==
    LET totalPixels == Cardinality(cells)
        suspiciousPixels == Cardinality({c \in cells : isSuspicious(data[c])})
    IN  totalPixels > 0 /\ 10 * suspiciousPixels > 7 * totalPixels

RowCells(y, minX, maxX) == {<<x, y>> : x \in minX..maxX}
ColCells(x, minY, maxY) == {<<x, y>> : y \in minY..maxY}

\* for (let y = minY; y < minY + 5 && y <= maxY; y++): the loop condition
\* reads the minY the body has just moved
RECURSIVE ContractTop(_, _, _, _, _, _)
ContractTop(data, y, minY, maxY, minX, maxX) ==
    IF y < minY + 5 /\ y <= maxY
    THEN IF MostlySuspicious(data, RowCells(y, minX, maxX))
         THEN ContractTop(data, y + 1, y + 1, maxY, minX, maxX)
         ELSE minY
    ELSE minY

RECURSIVE ContractBottom(_, _, _, _, _, _)
ContractBottom(data, y, minY, maxY, minX, maxX) ==
    IF y > maxY - 5 /\ y >= minY
    THEN IF MostlySuspicious(data, RowCells(y, minX, maxX))
         THEN ContractBottom(data, y - 1, minY, y - 1, minX, maxX)
         ELSE maxY
    ELSE maxY

RECURSIVE ContractLeft(_, _, _, _, _, _)
ContractLeft(data, x, minX, maxX, minY, maxY) ==
    IF x < minX + 5 /\ x <= maxX
    THEN IF MostlySuspicious(data, ColCells(x, minY, maxY))
         THEN ContractLeft(data, x + 1, x + 1, maxX, minY, maxY)
         ELSE minX
    ELSE minX

RECURSIVE ContractRight(_, _, _, _, _, _)
ContractRight(data, x, minX, maxX, minY, maxY) ==
    IF x > maxX - 5 /\ x >= minX
    THEN IF MostlySuspicious(data, ColCells(x, minY, maxY))
         THEN ContractRight(data, x - 1, minX, x - 1, minY, maxY)
         ELSE maxX
    ELSE maxX

refineBoundingBox(data, width, height, bbox) ==
    LET minX0 == bbox.x
        minY0 == bbox.y
        maxX0 == bbox.x + bbox.width - 1
        maxY0 == bbox.y + bbox.height - 1
        minY == ContractTop(data, minY0, minY0, maxY0, minX0, maxX0)
        maxY == ContractBottom(data, maxY0, minY, maxY0, minX0, maxX0)
        minX == ContractLeft(data, minX0, minX0, maxX0, minY, maxY)
        maxX == ContractRight(data, maxX0, minX, maxX0, minY, maxY)
    IN  [x |-> minX, y |-> minY,
         width |-> Max(1, maxX - minX + 1),
         height |-> Max(1, maxY - minY + 1)]

\* null (found = FALSE) when no pixel qualifies, else the refined box
calculateAlphaBoundingBox(data, width, height, threshold) ==
    LET content == {p \in DOMAIN data : IsContentPixel(data[p], threshold)}
        minX == SetMin({p[1] : p \in content})
        maxX == SetMax({p[1] : p \in content})
        minY == SetMin({p[2] : p \in content})
        maxY == SetMax({p[2] : p \in content})
    IN  IF content = {}
        THEN [found |-> FALSE, box |-> [x |-> 0, y |-> 0, width |-> 0, height |-> 0]]
        ELSE [found |-> TRUE,
              box |-> refineBoundingBox(data, width, height,
                          [x |-> minX, y |-> minY,
                           width |-> maxX - minX + 1,
                           height |-> maxY - minY + 1])]

(***************************************************************************)
(* Auto-crop strategies.                                                   *)
(***************************************************************************)
\* new OffscreenCanvas(box.width, box.height), cleared, with the region box of
\* source drawn into it
CropCanvas(source, box) ==
    [width |-> box.width, height |-> box.height, angle |-> source.angle,
     bg |-> source.bg, ox |-> source.ox + box.x, oy |-> source.oy + box.y,
     scaled |-> source.scaled]

FullBox(canvas) == [x |-> 0, y |-> 0, width |-> canvas.width, height |-> canvas.height]

\* autoCropGeometric; its catch branch needs a failing getContext or
\* OffscreenCanvas constructor, which a box of at least 1 x 1 never causes
autoCropGeometric(input, rotationAngle, originalWidth, originalHeight, shavePixels) ==
    LET boundingBox == calculateGeometricInscribedRectangle(
                           originalWidth, originalHeight, rotationAngle,
                           input.width, input.height, shavePixels)
    IN  [success |-> TRUE, boundingBox |-> boundingBox,
         canvas |-> CropCanvas(input, boundingBox),
         method |-> "geometric_deterministic"]

overcropPixels == 1

autoCropByAlphaWithMarginCompensation(input, data, threshold) ==
    LET found == calculateAlphaBoundingBox(data, input.width, input.height, threshold)
        boundingBox == found.box
        adjustedBounds ==
            [x |-> Max(0, boundingBox.x + overcropPixels),
             y |-> Max(0, boundingBox.y + overcropPixels),
             width |-> Max(1, boundingBox.width - overcropPixels * 2),
             height |-> Max(1, boundingBox.height - overcropPixels * 2)]
    IN  IF ~found.found
        THEN [success |-> FALSE, boundingBox |-> FullBox(input), canvas |-> input,
              method |-> "none"]
        ELSE [success |-> TRUE, boundingBox |-> adjustedBounds,
              canvas |-> CropCanvas(input, adjustedBounds),
              method |-> "alpha_with_margin_compensation"]

autoCropByAlphaEmptyOnNoContent(input, data, threshold) ==
    LET found == calculateAlphaBoundingBox(data, input.width, input.height, threshold)
        nothing == [x |-> 0, y |-> 0, width |-> 0, height |-> 0]
    IN  IF ~found.found
        THEN [success |-> TRUE, boundingBox |-> nothing,
              canvas |-> CropCanvas(input, nothing), method |-> "alpha"]
        ELSE [success |-> TRUE, boundingBox |-> found.box,
              canvas |-> CropCanvas(input, found.box),
              method |-> "alpha"]

autoCropByAlpha(input, data, threshold) ==
    LET found == calculateAlphaBoundingBox(data, input.width, input.height, threshold)
    IN  IF ~found.found
        THEN [success |-> FALSE, boundingBox |-> FullBox(input), canvas |-> input,
              method |-> "none"]
        ELSE [success |-> TRUE, boundingBox |-> found.box,
              canvas |-> CropCanvas(input, found.box),
              method |-> "alpha"]

\* const shavePixels = options.shavePixels || 1
Undefined == -1

EffectiveShaveAlwaysDefault(shavePixels) == 1

EffectiveShave(shavePixels) ==
    IF shavePixels = Undefined \/ shavePixels = 0 THEN 1 ELSE shavePixels

\* const threshold = isRotated ? 12 : 0
AlphaThreshold(isRotated) == IF isRotated THEN 12 ELSE 0

\* PASO 2 of processImage: the result of the chosen auto-crop
AutoCropStep(canvas, image, opts) ==
    LET isRotated == opts.rotation # 0
        shavePixels == EffectiveShave(opts.shavePixels)
        threshold == AlphaThreshold(isRotated)
    IN  IF opts.useGeometricCrop
        THEN autoCropGeometric(canvas, opts.rotation, image.width, image.height,
                               shavePixels)
        ELSE IF isRotated
        THEN autoCropByAlphaWithMarginCompensation(
                 canvas, ImageData(canvas, image), threshold)
        ELSE autoCropByAlpha(canvas, ImageData(canvas, image), threshold)

\* workingCanvas = autoCropResult.canvas || workingCanvas, when success
AfterAutoCropKeepsSource(result, canvas) == canvas

AfterAutoCrop(result, canvas) == IF result.success THEN result.canvas ELSE canvas

(***************************************************************************)
(* Values of the state before anything ran.                                *)
(***************************************************************************)
NoCanvas == createCanvasFromImageBitmap(0, 0)

NoRect == [x |-> 0, y |-> 0, width |-> 0, height |-> 0]

NoGeom ==
    [called |-> FALSE, w0 |-> 0, h0 |-> 0, angle |-> 0, shave |-> 0,
     canvas |-> NoCanvas, rect |-> NoRect]

NoGeomAgain == [called |-> FALSE, shave |-> 0, rect |-> NoRect]

\* the page before "process" is pressed
BatchIdle ==
    /\ selectedFiles = << >>
    /\ consent = FALSE
    /\ consentGiven = FALSE
    /\ mainPc = "idle"
    /\ loopIndex = 0
    /\ results = << >>
    /\ onmessage = 0
    /\ inbox = << >>
    /\ decoding = {}
    /\ encoding = {}
    /\ outbox = << >>
    /\ terminated = FALSE
    /\ uploaded = 0
    /\ posted = << >>

(***************************************************************************)
(* SpecPipe: one run of processImage on one decoded image.  Each step      *)
(* draws the options it reads.                                             *)
(***************************************************************************)
NoImage == [width |-> 0, height |-> 0, pad |-> 0, fill |-> Transparent]

NoResult ==
    [success |-> FALSE, boundingBox |-> NoRect, canvas |-> NoCanvas, method |-> "none"]

\* the form's defaults stand for the options no step has read yet
NoOptions ==
    [rotation |-> 0, shavePixels |-> 1, useGeometricCrop |-> TRUE,
     debugMode |-> FALSE, cropX |-> 0, cropY |-> 0, cropWidth |-> 0,
     cropHeight |-> 0, resizeWidth |-> 0, resizeHeight |-> 0,
     maintainAspectRatio |-> TRUE, format |-> "jpeg"]

SmallDims == 1..MaxDim

\* decoded inputs: every fill for the small images the alpha scan reads pixel
\* by pixel, one fill for the large ones
\* a white strip with more rows than the five the refinement means to take
TallStrips == { [width |-> 1, height |-> MaxDim + 3, pad |-> 0, fill |-> White] }

Images ==
    [width : SmallDims, height : SmallDims, pad : 0..MaxPad, fill : Fills]
    \cup [width : Dims, height : Dims, pad : 0..MaxPad, fill : {Dark}]
    \cup TallStrips

\* two photographs of ordinary size, each run at one rotation
ScenarioRuns ==
    { [image |-> [width |-> 800, height |-> 600, pad |-> 0, fill |-> Dark],
       rotation |-> 0],
      [image |-> [width |-> 1000, height |-> 1000, pad |-> 0, fill |-> Dark],
       rotation |-> 450] }

ScenarioImages == { run.image : run \in ScenarioRuns }

\* the ImageBitmap createImageBitmap resolves with
Bitmap(image) == createCanvasFromImageBitmap(image.width, image.height)

PipeAngles == {0, 3, 150, 450, 900, 3600}

AutoCropOptions ==
    [shavePixels : {Undefined} \cup Shaves, useGeometricCrop : {TRUE},
     debugMode : BOOLEAN]
    \cup [shavePixels : {Undefined}, useGeometricCrop : {FALSE},
          debugMode : BOOLEAN]

UserCrops ==
    { [cropX |-> 0, cropY |-> 0, cropWidth |-> 0, cropHeight |-> 0],
      [cropX |-> 0, cropY |-> 0, cropWidth |-> 2, cropHeight |-> 2],
      [cropX |-> 1, cropY |-> 1, cropWidth |-> 1, cropHeight |-> 3] }

Resizes ==
    { [resizeWidth |-> 0, resizeHeight |-> 0, maintainAspectRatio |-> TRUE],
      [resizeWidth |-> 1, resizeHeight |-> 0, maintainAspectRatio |-> TRUE],
      [resizeWidth |-> 0, resizeHeight |-> 2, maintainAspectRatio |-> FALSE],
      [resizeWidth |-> 3, resizeHeight |-> 2, maintainAspectRatio |-> TRUE] }

Formats == {"png", "jpeg", "webp"}

Stage(name, input, output) == [stage |-> name, input |-> input, output |-> output]

PipeIdle ==
    /\ pc = "Idle"
    /\ img = NoImage
    /\ options = NoOptions
    /\ workingCanvas = NoCanvas
    /\ autoCropResult = NoResult
    /\ exportCanvas = NoCanvas
    /\ trace = << >>

InitPipe ==
    /\ geom = NoGeom
    /\ geomAgain = NoGeomAgain
    /\ DEBUG_MODE \in BOOLEAN
    /\ PipeIdle
    /\ BatchIdle

\* loadImage resolves
Load ==
    /\ pc = "Idle"
    /\ \E image \in Images \cup ScenarioImages :
         /\ img' = image
         /\ trace' = Append(trace, Stage("Loaded", Bitmap(image), Bitmap(image)))
    /\ pc' = "Loaded"
    /\ UNCHANGED <<geom, geomAgain, DEBUG_MODE, options, workingCanvas, autoCropResult,
                   exportCanvas>>
    /\ UNCHANGED batchVars

\* createImageBitmap rejects: 'Failed to load image: ...'
LoadFails ==
    /\ pc = "Idle"
    /\ pc' = "Failed"
    /\ UNCHANGED <<geom, geomAgain, DEBUG_MODE, img, options, workingCanvas, autoCropResult,
                   exportCanvas, trace>>
    /\ UNCHANGED batchVars

\* PASO 1
Rotate ==
    /\ pc = "Loaded"
    /\ \E rotation \in PipeAngles :
         LET canvas == RotationStep(img.width, img.height, rotation)
         IN  /\ img \in ScenarioImages
                   => [image |-> img, rotation |-> rotation] \in ScenarioRuns
             /\ options' = [options EXCEPT !.rotation = rotation]
             /\ workingCanvas' = canvas
             /\ trace' = Append(trace, Stage("Rotated", Bitmap(img), canvas))
    /\ pc' = "Rotated"
    /\ UNCHANGED <<geom, geomAgain, DEBUG_MODE, img, autoCropResult, exportCanvas>>
    /\ UNCHANGED batchVars

\* the alpha scan is enumerated on the canvases that hold the image unrotated
AlphaScanEnumerated ==
    /\ \/ img.width \in SmallDims /\ img.height \in SmallDims
       \/ img \in TallStrips
    /\ workingCanvas.angle = 0

\* PASO 2, and the debug visualisation after it, which reads the block-scoped
\* threshold of the alpha branch and so throws a ReferenceError
AutoCrop ==
    /\ pc = "Rotated"
    /\ \E o \in AutoCropOptions :
         LET opts == [options EXCEPT !.shavePixels = o.shavePixels,
                                     !.useGeometricCrop = o.useGeometricCrop,
                                     !.debugMode = o.debugMode]
             result == AutoCropStep(workingCanvas, img, opts)
             canvas == AfterAutoCrop(result, workingCanvas)
         IN  /\ o.useGeometricCrop \/ AlphaScanEnumerated
             /\ options' = opts
             /\ autoCropResult' = result
             /\ workingCanvas' = canvas
             /\ trace' = Append(trace, Stage("AutoCropped", workingCanvas,
                                              result.canvas))
             /\ pc' = IF DEBUG_MODE /\ o.debugMode THEN "Failed" ELSE "AutoCropped"
    /\ UNCHANGED <<geom, geomAgain, DEBUG_MODE, img, exportCanvas>>
    /\ UNCHANGED batchVars

\* PASO 3, taken
UserCrop ==
    /\ pc = "AutoCropped"
    /\ \E c \in UserCrops :
         LET box == [x |-> c.cropX, y |-> c.cropY, width |-> c.cropWidth,
                     height |-> c.cropHeight]
             cropCanvas == CropCanvas(workingCanvas, box)
         IN  /\ c.cropWidth > 0 /\ c.cropHeight > 0
             /\ options' = [options EXCEPT !.cropX = c.cropX, !.cropY = c.cropY,
                                           !.cropWidth = c.cropWidth,
                                           !.cropHeight = c.cropHeight]
             /\ workingCanvas' = cropCanvas
             /\ trace' = Append(trace, Stage("UserCropped", workingCanvas, cropCanvas))
    /\ pc' = "UserCropped"
    /\ UNCHANGED <<geom, geomAgain, DEBUG_MODE, img, autoCropResult, exportCanvas>>
    /\ UNCHANGED batchVars

\* PASO 3, not taken
SkipUserCrop ==
    /\ pc = "AutoCropped"
    /\ \E c \in UserCrops :
         /\ ~(c.cropWidth > 0 /\ c.cropHeight > 0)
         /\ options' = [options EXCEPT !.cropX = c.cropX, !.cropY = c.cropY,
                                       !.cropWidth = c.cropWidth,
                                       !.cropHeight = c.cropHeight]
    /\ pc' = "UserCropped"
    /\ UNCHANGED <<geom, geomAgain, DEBUG_MODE, img, workingCanvas, autoCropResult,
                   exportCanvas, trace>>
    /\ UNCHANGED batchVars

\* the size PASO 4 gives the resize canvas; || takes the canvas size for 0
ResizedSize(canvas, r) ==
    LET newWidth == IF r.resizeWidth # 0 THEN r.resizeWidth ELSE canvas.width
        newHeight == IF r.resizeHeight # 0 THEN r.resizeHeight ELSE canvas.height
    IN  IF ~r.maintainAspectRatio
        THEN [width |-> newWidth, height |-> newHeight]
        ELSE IF r.resizeWidth # 0 /\ r.resizeHeight = 0
        THEN [width |-> r.resizeWidth,
              height |-> RoundDiv(r.resizeWidth * canvas.height, canvas.width)]
        ELSE IF r.resizeHeight # 0 /\ r.resizeWidth = 0
        THEN [width |-> RoundDiv(r.resizeHeight * canvas.width, canvas.height),
              height |-> r.resizeHeight]
        ELSE IF r.resizeWidth * canvas.height <= r.resizeHeight * canvas.width
        THEN [width |-> r.resizeWidth,
              height |-> RoundDiv(canvas.height * r.resizeWidth, canvas.width)]
        ELSE [width |-> RoundDiv(canvas.width * r.resizeHeight, canvas.height),
              height |-> r.resizeHeight]

\* PASO 4, taken
Resize ==
    /\ pc = "UserCropped"
    /\ \E r \in Resizes :
         LET size == ResizedSize(workingCanvas, r)
             resizeCanvas == [workingCanvas EXCEPT !.width = size.width,
                                                   !.height = size.height,
                                                   !.scaled = TRUE]
         IN  /\ r.resizeWidth > 0 \/ r.resizeHeight > 0
             /\ options' = [options EXCEPT
                               !.resizeWidth = r.resizeWidth,
                               !.resizeHeight = r.resizeHeight,
                               !.maintainAspectRatio = r.maintainAspectRatio]
             /\ workingCanvas' = resizeCanvas
             /\ trace' = Append(trace, Stage("Resized", workingCanvas, resizeCanvas))
    /\ pc' = "Resized"
    /\ UNCHANGED <<geom, geomAgain, DEBUG_MODE, img, autoCropResult, exportCanvas>>
    /\ UNCHANGED batchVars

\* PASO 4, not taken
SkipResize ==
    /\ pc = "UserCropped"
    /\ \E r \in Resizes :
         /\ ~(r.resizeWidth > 0 \/ r.resizeHeight > 0)
         /\ options' = [options EXCEPT
                           !.resizeWidth = r.resizeWidth,
                           !.resizeHeight = r.resizeHeight,
                           !.maintainAspectRatio = r.maintainAspectRatio]
    /\ pc' = "Resized"
    /\ UNCHANGED <<geom, geomAgain, DEBUG_MODE, img, workingCanvas, autoCropResult,
                   exportCanvas, trace>>
    /\ UNCHANGED batchVars

ExportCanvasAlwaysWhite(canvas, format) == [canvas EXCEPT !.bg = "white"]

\* the canvas PASO 5 hands to convertToBlob: for jpeg a new canvas filled
\* white with the working canvas drawn over it
ExportCanvas(canvas, format) ==
    IF format = "jpeg" THEN [canvas EXCEPT !.bg = "white"] ELSE canvas

\* PASO 5; drawing or encoding a canvas without pixels throws
Export ==
    /\ pc = "Resized"
    /\ \E format \in Formats :
         LET canvas == ExportCanvas(workingCanvas, format)
         IN  /\ options' = [options EXCEPT !.format = format]
             /\ IF workingCanvas.width = 0 \/ workingCanvas.height = 0
                THEN /\ pc' = "Failed"
                     /\ UNCHANGED <<exportCanvas, trace>>
                ELSE /\ pc' = "Exported"
                     /\ exportCanvas' = canvas
                     /\ trace' = Append(trace, Stage("Exported", workingCanvas, canvas))
    /\ UNCHANGED <<geom, geomAgain, DEBUG_MODE, img, workingCanvas, autoCropResult>>
    /\ UNCHANGED batchVars

\* the keys of the debugInfo an auto-crop strategy returns, with the two keys
\* processImage adds when it stores it as debugInfo.autoCrop
AutoCropDebugInfo(result) ==
    {"wasRotated", "method"}
    \cup (IF ~result.success
          THEN {"reason", "threshold"}
          ELSE IF result.method = "geometric_deterministic"
          THEN {"originalSize", "croppedSize", "reduction", "rotationAngle",
                "shavePixels"}
          ELSE {"originalSize", "croppedSize", "reduction", "threshold"})

\* what the value processImage returns says about a stage: the blob alone
\* off localhost, else the blob with debugInfo.autoCrop and the final size
ReturnedDebugInfo(name) ==
    IF ~DEBUG_MODE
    THEN {}
    ELSE IF name = "AutoCropped"
    THEN AutoCropDebugInfo(autoCropResult)
    ELSE IF name = "Exported"
    THEN {"finalSize", "fileSize", "totalProcessingTime"}
    ELSE {}

NextPipe ==
    \/ Load
    \/ LoadFails
    \/ Rotate
    \/ AutoCrop
    \/ UserCrop
    \/ SkipUserCrop
    \/ Resize
    \/ SkipResize
    \/ Export

SpecPipe == InitPipe /\ [][NextPipe]_vars

(***************************************************************************)
(* SpecBatch: handleProcessImages and processImageInWorker of the page,    *)
(* one worker for the batch, and the worker's onmessage handler, which      *)
(* yields at createImageBitmap and at convertToBlob.                       *)
(***************************************************************************)
\* a file decodes and encodes, or createImageBitmap rejects it, or processImage
\* throws on it before its await, or convertToBlob rejects its canvas
FileKinds == {"image", "corrupt", "unprocessable", "unencodable"}

\* the messages of the errors the worker's catch block posts
DecodeError == "Failed to load image"
ProcessError == "processImage threw"
EncodeError == "convertToBlob rejected"

Batches == UNION { [1..n -> FileKinds] : n \in 1..MaxBatch }

Range(seq) == { seq[k] : k \in DOMAIN seq }

\* the record the page pushes when the promise of image k resolves with the
\* response m
SuccessRecord(k, m) ==
    [originalFile |-> k, processedBlob |-> m.req, filename |-> <<"projectName", k>>,
     success |-> TRUE, error |-> ""]

\* the record the catch block pushes for image k
FailureRecord(k, message) ==
    [originalFile |-> k, processedBlob |-> 0, filename |-> <<"file.name", k>>,
     success |-> FALSE, error |-> message]

FirstSuccessful(records) ==
    IF \E k \in DOMAIN records : records[k].success
    THEN records[CHOOSE k \in DOMAIN records :
                     /\ records[k].success
                     /\ \A j \in 1..(k - 1) : ~records[j].success].originalFile
    ELSE 0

\* What runs when the awaited promise settles: the record is pushed and the
\* loop either calls processImageInWorker for the next file, which installs
\* its onmessage closure and posts the request, or leaves the loop,
\* terminates the worker and starts the upload.
Continue(record, pendingOutbox) ==
    LET newResults == Append(results, record)
    IN  /\ results' = newResults
        /\ loopIndex' = loopIndex + 1
        /\ IF loopIndex + 1 <= Len(selectedFiles)
           THEN /\ onmessage' = loopIndex + 1
                /\ inbox' = Append(inbox, loopIndex + 1)
                /\ outbox' = pendingOutbox
                /\ mainPc' = "awaiting"
                /\ UNCHANGED <<decoding, encoding, terminated, uploaded>>
           ELSE /\ terminated' = TRUE
                /\ inbox' = << >>
                /\ decoding' = {}
                /\ encoding' = {}
                /\ outbox' = << >>
                /\ mainPc' = "done"
                /\ uploaded' = IF consentGiven THEN FirstSuccessful(newResults) ELSE 0
                /\ UNCHANGED onmessage

\* the user ticks or unticks the checkbox of the banner: setConsentGiven
\* re-renders the page, which leaves the closure of a handler that is already
\* running as it was
handleConsentChange ==
    /\ consent' = ~consent
    /\ UNCHANGED <<selectedFiles, consentGiven, mainPc, loopIndex, results,
                   onmessage, inbox, decoding, encoding, outbox, terminated,
                   uploaded, posted>>
    /\ UNCHANGED <<geom, geomAgain, pipeVars>>

\* handleProcessImages up to its first await; the handler reads the
\* consentGiven of the render it was created in
StartBatch ==
    /\ mainPc = "idle"
    /\ \E files \in Batches : selectedFiles' = files
    /\ consentGiven' = consent
    /\ loopIndex' = 1
    /\ onmessage' = 1
    /\ inbox' = <<1>>
    /\ mainPc' = "awaiting"
    /\ UNCHANGED <<consent, results, decoding, encoding, outbox, terminated, uploaded,
                   posted>>
    /\ UNCHANGED <<geom, geomAgain, pipeVars>>

\* the 30 second timer of the awaited promise fires
Timeout ==
    /\ mainPc = "awaiting"
    /\ Continue(FailureRecord(loopIndex, "Processing timeout"), outbox)
    /\ UNCHANGED <<selectedFiles, consent, consentGiven, posted>>
    /\ UNCHANGED <<geom, geomAgain, pipeVars>>

\* a response reaches worker.onmessage, that is the closure installed last
Deliver ==
    /\ mainPc = "awaiting"
    /\ ~terminated
    /\ outbox # << >>
    /\ LET m == Head(outbox)
       IN  Continue(IF m.success
                    THEN SuccessRecord(onmessage, m)
                    ELSE FailureRecord(onmessage, m.error),
                    Tail(outbox))
    /\ UNCHANGED <<selectedFiles, consent, consentGiven, posted>>
    /\ UNCHANGED <<geom, geomAgain, pipeVars>>

\* self.onmessage starts on the next request and awaits loadImage
WorkerOnMessage ==
    /\ ~terminated
    /\ inbox # << >>
    /\ decoding' = decoding \cup {Head(inbox)}
    /\ inbox' = Tail(inbox)
    /\ UNCHANGED <<selectedFiles, consent, consentGiven, mainPc, loopIndex, results,
                   onmessage, encoding, outbox, terminated, uploaded, posted>>
    /\ UNCHANGED <<geom, geomAgain, pipeVars>>

\* createImageBitmap rejects; the catch block posts the error response
DecodeFails ==
    /\ ~terminated
    /\ \E r \in decoding :
         /\ selectedFiles[r] = "corrupt"
         /\ decoding' = decoding \ {r}
         /\ outbox' = Append(outbox, [req |-> r, success |-> FALSE,
                                      error |-> DecodeError])
         /\ posted' = Append(posted, [req |-> r, success |-> FALSE,
                                      error |-> DecodeError])
    /\ UNCHANGED <<selectedFiles, consent, consentGiven, mainPc, loopIndex, results,
                   onmessage, inbox, encoding, terminated, uploaded>>
    /\ UNCHANGED <<geom, geomAgain, pipeVars>>

\* createImageBitmap resolves and processImage throws before it awaits; the
\* catch block posts the error response
ProcessFails ==
    /\ ~terminated
    /\ \E r \in decoding :
         /\ selectedFiles[r] = "unprocessable"
         /\ decoding' = decoding \ {r}
         /\ outbox' = Append(outbox, [req |-> r, success |-> FALSE,
                                      error |-> ProcessError])
         /\ posted' = Append(posted, [req |-> r, success |-> FALSE,
                                      error |-> ProcessError])
    /\ UNCHANGED <<selectedFiles, consent, consentGiven, mainPc, loopIndex, results,
                   onmessage, inbox, encoding, terminated, uploaded>>
    /\ UNCHANGED <<geom, geomAgain, pipeVars>>

\* createImageBitmap resolves; processImage runs up to await convertToBlob
DecodeSucceeds ==
    /\ ~terminated
    /\ \E r \in decoding :
         /\ selectedFiles[r] \in {"image", "unencodable"}
         /\ decoding' = decoding \ {r}
         /\ encoding' = encoding \cup {r}
    /\ UNCHANGED <<selectedFiles, consent, consentGiven, mainPc, loopIndex, results,
                   onmessage, inbox, outbox, terminated, uploaded, posted>>
    /\ UNCHANGED <<geom, geomAgain, pipeVars>>

\* convertToBlob resolves; the handler posts the success response
EncodeDone ==
    /\ ~terminated
    /\ \E r \in encoding :
         /\ selectedFiles[r] = "image"
         /\ encoding' = encoding \ {r}
         /\ outbox' = Append(outbox, [req |-> r, success |-> TRUE, error |-> ""])
         /\ posted' = Append(posted, [req |-> r, success |-> TRUE, error |-> ""])
    /\ UNCHANGED <<selectedFiles, consent, consentGiven, mainPc, loopIndex, results,
                   onmessage, inbox, decoding, terminated, uploaded>>
    /\ UNCHANGED <<geom, geomAgain, pipeVars>>

EncodeFailsAfterResponse ==
    /\ ~terminated
    /\ \E r \in encoding :
         LET done == [req |-> r, success |-> TRUE, error |-> ""]
             failed == [req |-> r, success |-> FALSE, error |-> EncodeError]
         IN  /\ selectedFiles[r] = "unencodable"
             /\ encoding' = encoding \ {r}
             /\ outbox' = Append(Append(outbox, done), failed)
             /\ posted' = Append(Append(posted, done), failed)
    /\ UNCHANGED <<selectedFiles, consent, consentGiven, mainPc, loopIndex, results,
                   onmessage, inbox, decoding, terminated, uploaded>>
    /\ UNCHANGED <<geom, geomAgain, pipeVars>>

\* convertToBlob rejects; the catch block posts the error response
EncodeFails ==
    /\ ~terminated
    /\ \E r \in encoding :
         /\ selectedFiles[r] = "unencodable"
         /\ encoding' = encoding \ {r}
         /\ outbox' = Append(outbox, [req |-> r, success |-> FALSE,
                                      error |-> EncodeError])
         /\ posted' = Append(posted, [req |-> r, success |-> FALSE,
                                      error |-> EncodeError])
    /\ UNCHANGED <<selectedFiles, consent, consentGiven, mainPc, loopIndex, results,
                   onmessage, inbox, decoding, terminated, uploaded>>
    /\ UNCHANGED <<geom, geomAgain, pipeVars>>

NextBatch ==
    \/ handleConsentChange
    \/ StartBatch
    \/ Timeout
    \/ Deliver
    \/ WorkerOnMessage
    \/ DecodeFails
    \/ ProcessFails
    \/ DecodeSucceeds
    \/ EncodeDone
    \/ EncodeFails

InitBatch ==
    /\ geom = NoGeom
    /\ geomAgain = NoGeomAgain
    /\ DEBUG_MODE = FALSE
    /\ PipeIdle
    /\ BatchIdle

SpecBatch == InitBatch /\ [][NextBatch]_vars

\* The worker's event loop takes up every message that is queued, and the
\* promises of createImageBitmap and convertToBlob settle: a handler that can
\* go on does go on.  The page's timer and the user are under no obligation.
SpecBatchFair ==
    /\ InitBatch
    /\ [][NextBatch]_vars
    /\ WF_vars(WorkerOnMessage)
    /\ WF_vars(DecodeFails \/ ProcessFails \/ DecodeSucceeds)
    /\ WF_vars(EncodeDone \/ EncodeFails)

(***************************************************************************)
(* SpecGeom: the geometry called directly on (w0, h0, angle, shave), with  *)
(* the canvas the rotation step of processImage builds for that image.     *)
(***************************************************************************)
InitGeom ==
    /\ geom = NoGeom
    /\ geomAgain = NoGeomAgain
    /\ DEBUG_MODE = FALSE
    /\ PipeIdle
    /\ BatchIdle

CallGeometric ==
    /\ ~geom.called
    /\ \E w0 \in Dims, h0 \in Dims, angle \in Angles, shave \in Shaves :
         LET canvas == RotationStep(w0, h0, angle)
         IN  geom' = [called |-> TRUE, w0 |-> w0, h0 |-> h0, angle |-> angle,
                      shave |-> shave, canvas |-> canvas,
                      rect |-> calculateGeometricInscribedRectangle(
                                   w0, h0, angle, canvas.width, canvas.height,
                                   shave)]
    /\ UNCHANGED geomAgain
    /\ UNCHANGED pipeVars
    /\ UNCHANGED batchVars

\* the same image at the same angle goes through the geometry once more
CallGeometricAgain ==
    /\ geom.called
    /\ ~geomAgain.called
    /\ \E shave \in Shaves :
         geomAgain' = [called |-> TRUE, shave |-> shave,
                       rect |-> calculateGeometricInscribedRectangle(
                                    geom.w0, geom.h0, geom.angle,
                                    geom.canvas.width, geom.canvas.height,
                                    shave)]
    /\ UNCHANGED geom
    /\ UNCHANGED pipeVars
    /\ UNCHANGED batchVars

NextGeom ==
    \/ CallGeometric
    \/ CallGeometricAgain

SpecGeom == InitGeom /\ [][NextGeom]_vars

\* The centre of the pixel (px, py) of the canvas, taken back through the
\* rotation the canvas was drawn with, lies in the w0 x h0 image up to tol
\* pixels.  Lengths are in half pixels from the canvas centre, where
\* rotateImage centres the image (translate(canvasWidth / 2, canvasHeight / 2),
\* rotate(-angleRad), drawImage(img, -origWidth / 2, -origHeight / 2)).
PixelInFootprint(px, py, canvas, w0, h0, tol) ==
    LET dx == 2 * px + 1 - canvas.width
        dy == 2 * py + 1 - canvas.height
        ix == dx * Cos(canvas.angle) - dy * Sin(canvas.angle)
        iy == dx * Sin(canvas.angle) + dy * Cos(canvas.angle)
    IN  /\ Abs(ix) <= (w0 + 2 * tol) * Scale
        /\ Abs(iy) <= (h0 + 2 * tol) * Scale

\* the four corner pixels of the region rect of the canvas
CornersInFootprint(rect, canvas, w0, h0, tol) ==
    \A px \in {rect.x, rect.x + rect.width - 1},
       py \in {rect.y, rect.y + rect.height - 1} :
        PixelInFootprint(px, py, canvas, w0, h0, tol)

\* C1: for a rotation that is an exact multiple of 90 degrees and shave 0 the
\* inscribed rectangle has the size w0 x h0 or h0 x w0 (no reduction).
C1_RightAngleNoReduction ==
    (geom.called /\ geom.shave = 0 /\ JSRem(geom.angle, 900) = 0)
        => \/ geom.rect.width = geom.w0 /\ geom.rect.height = geom.h0
           \/ geom.rect.width = geom.h0 /\ geom.rect.height = geom.w0

\* C9: for every angle and shave 0, the four corner pixels of the geometric
\* rectangle, centred in the canvas of the rotation step, lie within the
\* footprint of the w0 x h0 image as drawn on that canvas, up to one pixel: no
\* corner of the cropped result is fully transparent.
C9_InscribedValidity ==
    (geom.called /\ geom.shave = 0)
        => CornersInFootprint(geom.rect, geom.canvas, geom.w0, geom.h0, 1)

\* C9 witness: a 100 x 200 image really rotated by 15 degrees, shave 0, whose
\* rectangle is smaller than the image
C9_Witness ==
    /\ geom.called /\ geom.shave = 0 /\ geom.angle = 150
    /\ geom.w0 = 100 /\ geom.h0 = 200
    /\ geom.canvas.angle = 150
    /\ geom.rect.width < geom.w0 /\ geom.rect.width > 1

C14_MonotonicShave ==
    (geomAgain.called /\ geomAgain.shave > geom.shave)
       => /\ \/ geomAgain.rect.width < geom.rect.width
             \/ geomAgain.rect.width = geom.rect.width /\ geom.rect.width = 1
          /\ \/ geomAgain.rect.height < geom.rect.height
             \/ geomAgain.rect.height = geom.rect.height /\ geom.rect.height = 1

\* C14 witness: a rotated image computed with shave 0 and then with shave 2,
\* both dimensions shrinking by 4
C14_Witness ==
    /\ geomAgain.called
    /\ geom.angle = 150
    /\ geom.shave = 0
    /\ geomAgain.shave = 2
    /\ geomAgain.rect.width = geom.rect.width - 4
    /\ geomAgain.rect.height = geom.rect.height - 4
    /\ geomAgain.rect.width > 1

StageRank(name) ==
    CASE name = "Loaded" -> 1
      [] name = "Rotated" -> 2
      [] name = "AutoCropped" -> 3
      [] name = "UserCropped" -> 4
      [] name = "Resized" -> 5
      [] name = "Exported" -> 6

StagesRun == { trace[k].stage : k \in DOMAIN trace }

C3_StageOrder ==
    /\ \A k \in DOMAIN trace :
         /\ k <= 3 => StageRank(trace[k].stage) = k
         /\ k > 1 => /\ StageRank(trace[k - 1].stage) < StageRank(trace[k].stage)
                     /\ trace[k].input = trace[k - 1].output
    /\ (Len(trace) >= 2 /\ pc # "Exported")
          => workingCanvas = trace[Len(trace)].output

\* C3 witness: all six stages ran and the auto-crop changed the buffer
C3_Witness ==
    /\ pc = "Exported"
    /\ Len(trace) = 6
    /\ trace[3].output # trace[3].input
    /\ trace[4].input = trace[3].output

\* C4: the rectangle the auto-crop computed lies inside the canvas it is
\* applied to.
C4_CropRectWithinCanvas ==
    ("AutoCropped" \in StagesRun /\ autoCropResult.success)
       => LET box == autoCropResult.boundingBox
              canvas == trace[3].input
          IN  /\ box.x >= 0
              /\ box.y >= 0
              /\ box.x + box.width <= canvas.width
              /\ box.y + box.height <= canvas.height

\* C5: every rectangle and every buffer a stage produced is at least 1 x 1.
C5_PositiveDimensions ==
    /\ \A k \in DOMAIN trace :
         trace[k].output.width >= 1 /\ trace[k].output.height >= 1
    /\ "AutoCropped" \in StagesRun
          => /\ autoCropResult.boundingBox.width >= 1
             /\ autoCropResult.boundingBox.height >= 1

HasContent(image) ==
    image.width > 2 * image.pad /\ image.height > 2 * image.pad

\* each of the four edge lines of the canvas holds a pixel of the image that
\* is not fully transparent
NoTransparentEdge(canvas, image) ==
    /\ \A x \in {0, canvas.width - 1} :
         \E y \in 0..(canvas.height - 1) : CanvasPixel(canvas, image, x, y).a > 0
    /\ \A y \in {0, canvas.height - 1} :
         \E x \in 0..(canvas.width - 1) : CanvasPixel(canvas, image, x, y).a > 0

\* C10: the AutoCropped stage runs for every image that passed the rotation
\* step, and at rotation 0 its output has no padding left: no edge row or
\* column of it is fully transparent.
C10_AutoCropStripsPadding ==
    /\ pc \in {"AutoCropped", "UserCropped", "Resized", "Exported"}
          => "AutoCropped" \in StagesRun
    /\ ("AutoCropped" \in StagesRun /\ options.rotation = 0 /\ HasContent(img))
          => NoTransparentEdge(trace[3].output, img)

Area(canvas) == canvas.width * canvas.height

DefaultRun ==
    /\ options.shavePixels \in {Undefined, 1}
    /\ options.useGeometricCrop
    /\ options.cropWidth = 0
    /\ options.cropHeight = 0
    /\ options.resizeWidth = 0
    /\ options.resizeHeight = 0

\* C11: an 800 x 600 image exported as jpeg at rotation 0 under the default
\* options comes out 800 x 600.
C11_UnrotatedKeepsSize ==
    (/\ pc = "Exported"
     /\ img.width = 800
     /\ img.height = 600
     /\ options.rotation = 0
     /\ options.format = "jpeg"
     /\ DefaultRun)
       => exportCanvas.width = 800 /\ exportCanvas.height = 600

\* C13: the shave the auto-crop applies is the caller's shavePixels, and 1
\* only when the caller gave none (at rotation 0 the geometric box starts at
\* the applied shave).
C13_ShaveAsSupplied ==
    (/\ "AutoCropped" \in StagesRun
     /\ options.useGeometricCrop
     /\ options.rotation = 0)
       => autoCropResult.boundingBox.x =
             (IF options.shavePixels = Undefined THEN 1 ELSE options.shavePixels)

\* C15: 1000 x 1000 rotated by 45 degrees with shave 2 and the geometric
\* method is cropped to 703 x 703, give or take one pixel.
C15_Scenario45 ==
    (/\ "AutoCropped" \in StagesRun
     /\ img.width = 1000
     /\ img.height = 1000
     /\ options.rotation = 450
     /\ options.shavePixels = 2
     /\ options.useGeometricCrop)
       => /\ Abs(autoCropResult.boundingBox.width - 703) <= 1
          /\ Abs(autoCropResult.boundingBox.height - 703) <= 1

\* C15 witness: that run, with a box of 703 x 703 in a 1515 x 1515 canvas
C15_Witness ==
    /\ pc = "AutoCropped"
    /\ img.width = 1000
    /\ img.height = 1000
    /\ options.rotation = 450
    /\ options.shavePixels = 2
    /\ options.useGeometricCrop
    /\ trace[3].input.width = 1515
    /\ autoCropResult.boundingBox.width = 703
    /\ autoCropResult.boundingBox.height = 703
    /\ workingCanvas.width = 703

\* the size a resize request names, the canvas size standing in for a
\* dimension it leaves at 0
ResizeTargetArea(canvas) ==
    (IF options.resizeWidth # 0 THEN options.resizeWidth ELSE canvas.width)
    * (IF options.resizeHeight # 0 THEN options.resizeHeight ELSE canvas.height)

\* C17: the auto-crop and the user crop never enlarge the area of the buffer,
\* and the resize gives at most the area of its target.
C17_AreaNonIncrease ==
    \A k \in DOMAIN trace :
        /\ trace[k].stage \in {"AutoCropped", "UserCropped"}
              => Area(trace[k].output) <= Area(trace[k].input)
        /\ trace[k].stage = "Resized"
              => Area(trace[k].output) <= ResizeTargetArea(trace[k].input)

\* C22: for a rotation whose normalised value is below 0.5 degrees in
\* magnitude the rotation step leaves the buffer as at angle 0, and the
\* auto-crop gives the rectangle and the buffer it gives at angle 0 with the
\* same other options.
C22_SmallAngleIsNoOp ==
    ("AutoCropped" \in StagesRun /\ Abs(NormalizeAngle(options.rotation)) < 5)
       => /\ trace[2].output = RotationStep(img.width, img.height, 0)
          /\ autoCropResult.boundingBox =
                AutoCropStep(trace[3].input, img,
                             [options EXCEPT !.rotation = 0]).boundingBox
          /\ trace[3].output.width =
                AutoCropStep(trace[3].input, img,
                             [options EXCEPT !.rotation = 0]).canvas.width
          /\ trace[3].output.height =
                AutoCropStep(trace[3].input, img,
                             [options EXCEPT !.rotation = 0]).canvas.height

\* C24: when exactly one of resizeWidth and resizeHeight is given, the output
\* has the given dimension and the other one follows from the aspect ratio
\* of the buffer that was resized, whatever maintainAspectRatio is.
C24_MissingDimensionFromAspect ==
    \A k \in DOMAIN trace :
        trace[k].stage = "Resized"
           => LET in == trace[k].input
                  out == trace[k].output
              IN  /\ (options.resizeWidth # 0 /\ options.resizeHeight = 0)
                        => /\ out.width = options.resizeWidth
                           /\ out.height = RoundDiv(options.resizeWidth * in.height,
                                                    in.width)
                  /\ (options.resizeHeight # 0 /\ options.resizeWidth = 0)
                        => /\ out.height = options.resizeHeight
                           /\ out.width = RoundDiv(options.resizeHeight * in.width,
                                                   in.height)

\* C25: the exported canvas is filled white exactly when the format is jpeg,
\* with the size of the final buffer; for png and webp the canvas that is
\* encoded is the final buffer itself, on transparent.
C25_WhiteOnlyForJpeg ==
    pc = "Exported"
       => /\ exportCanvas.bg = "white" <=> options.format = "jpeg"
          /\ options.format # "jpeg" => exportCanvas = workingCanvas
          /\ options.format = "jpeg"
                => exportCanvas = [workingCanvas EXCEPT !.bg = "white"]
          /\ workingCanvas.bg = "transparent"

\* C25 witness: a rotated image was exported as webp from a transparent buffer
C25_Witness ==
    /\ pc = "Exported"
    /\ options.format = "webp"
    /\ options.rotation = 150
    /\ trace[2].output.angle = 150
    /\ exportCanvas = workingCanvas
    /\ exportCanvas.bg = "transparent"
    /\ exportCanvas.width >= 1

\* C26: the value returned for a processed image holds, for every stage that
\* ran on the decoded image, the method, the input and output sizes, the
\* rectangle and the reduction.
C26_DiagnosticsPerStage ==
    pc = "Exported"
       => \A k \in 2..Len(trace) :
            LET info == ReturnedDebugInfo(trace[k].stage)
            IN  /\ "method" \in info
                /\ "originalSize" \in info
                /\ "croppedSize" \in info \/ "finalSize" \in info
                /\ "boundingBox" \in info
                /\ "reduction" \in info

\* C28: debugMode does not change the outcome: a run with debugMode on fails
\* only where the same run with debugMode off fails, that is at the export of
\* a canvas without pixels.
C28_DebugModeKeepsOutcome ==
    (pc = "Failed" /\ "AutoCropped" \in StagesRun /\ options.debugMode)
       => Area(workingCanvas) = 0

(***************************************************************************)
(* The alpha scan inside the pipeline (SpecPipe).                          *)
(***************************************************************************)
AlphaRun == "AutoCropped" \in StagesRun /\ ~options.useGeometricCrop

\* the pixels the scan of the rotated canvas reads, and its threshold
ScannedData == ImageData(trace[3].input, img)

ScanThreshold == AlphaThreshold(options.rotation # 0)

Qualifying == {p \in DOMAIN ScannedData : IsContentPixel(ScannedData[p], ScanThreshold)}

TightBox(cells) ==
    LET minX == SetMin({p[1] : p \in cells})
        maxX == SetMax({p[1] : p \in cells})
        minY == SetMin({p[2] : p \in cells})
        maxY == SetMax({p[2] : p \in cells})
    IN  [x |-> minX, y |-> minY, width |-> maxX - minX + 1,
         height |-> maxY - minY + 1]

InsideBox(p, box) ==
    /\ p[1] >= box.x
    /\ p[1] < box.x + box.width
    /\ p[2] >= box.y
    /\ p[2] < box.y + box.height

CentredIn(box, canvas) ==
    /\ box.x = canvas.width - box.x - box.width
    /\ box.y = canvas.height - box.y - box.height

\* the scan's tight box takes less than 1% off the canvas area
NegligibleReduction ==
    100 * (Area(trace[3].input) - Area(TightBox(Qualifying))) < Area(trace[3].input)

\* the cropped buffer has pixels, lies inside the canvas it was cut from and,
\* where the scan found content, shows some of it
NotDegenerate ==
    LET box == autoCropResult.boundingBox
        out == trace[3].output
    IN  /\ out.width >= 1
        /\ out.height >= 1
        /\ box.x >= 0
        /\ box.y >= 0
        /\ box.x + box.width <= trace[3].input.width
        /\ box.y + box.height <= trace[3].input.height
        /\ Qualifying # {} => \E p \in Qualifying : InsideBox(p, box)

\* C18: when the scan finds nothing, or takes less than 1% off the area, the
\* rectangle the stage applies is the geometric one or one centred in the
\* canvas, and the stage never emits an empty or degenerate buffer.
C18_AlphaFallback ==
    AlphaRun
       => /\ (Qualifying = {} \/ NegligibleReduction)
                => \/ CentredIn(autoCropResult.boundingBox, trace[3].input)
                   \/ autoCropResult.boundingBox =
                         calculateGeometricInscribedRectangle(
                             img.width, img.height, options.rotation,
                             trace[3].input.width, trace[3].input.height,
                             EffectiveShave(options.shavePixels))
          /\ NotDegenerate

\* C19: when the scan finds no qualifying pixel the stage hands on the canvas
\* unmodified and the run goes on; if it fails, it fails for the debug
\* visualisation or for a resize to zero, which do not depend on the scan.
C19_NoContentNotAFailure ==
    (AlphaRun /\ Qualifying = {})
       => /\ ~autoCropResult.success
          /\ trace[3].output = trace[3].input
          /\ pc = "Failed"
                => \/ DEBUG_MODE /\ options.debugMode
                   \/ Area(workingCanvas) = 0

\* C19 witness: a fully transparent 4 x 4 image went through the alpha scan
\* and was exported at its own size
C19_Witness ==
    /\ pc = "Exported"
    /\ AlphaRun
    /\ Qualifying = {}
    /\ img.width = 4
    /\ img.height = 4
    /\ img.pad = 2
    /\ options.rotation = 0
    /\ exportCanvas.width = 4
    /\ exportCanvas.height = 4

\* C20: the scan returns null exactly when no pixel qualifies, a pixel with
\* alpha <= threshold never qualifies, and otherwise the box returned is the
\* tight box over the qualifying pixels, which all lie inside it.
C20_TightAlphaBox ==
    AlphaRun
       => LET scan == calculateAlphaBoundingBox(
                          ScannedData, trace[3].input.width,
                          trace[3].input.height, ScanThreshold)
          IN  /\ scan.found <=> Qualifying # {}
              /\ \A p \in Qualifying : ScannedData[p].a > ScanThreshold
              /\ scan.found
                    => /\ scan.box = TightBox(Qualifying)
                       /\ \A p \in Qualifying : InsideBox(p, scan.box)

\* the scanned canvas cut to the tight box of its qualifying pixels
TightlyCropped == CropCanvas(trace[3].input, TightBox(Qualifying))

\* C21: the alpha scan of a buffer already cut to the tight box of its content
\* finds content and returns the full bounds of that buffer.
C21_AlphaScanIdempotent ==
    (AlphaRun /\ Qualifying # {})
       => LET again == calculateAlphaBoundingBox(
                           ImageData(TightlyCropped, img), TightlyCropped.width,
                           TightlyCropped.height, ScanThreshold)
          IN  /\ again.found
              /\ again.box = FullBox(TightlyCropped)

\* rows y of the box's columns, and columns x of the box's rows
BoxRow(y, box) == RowCells(y, box.x, box.x + box.width - 1)

BoxCol(x, box) == ColCells(x, box.y, box.y + box.height - 1)

\* C30: refineBoundingBox, given the tight box of the qualifying pixels,
\* returns a box of at least 1 x 1 that lies inside the given one, with at most
\* 5 rows or columns taken from each edge, and every row it took was more than
\* 70% suspicious over the columns of the given box.
C30_RefineOnlyContracts ==
    (AlphaRun /\ Qualifying # {})
       => LET given == TightBox(Qualifying)
              out == refineBoundingBox(ScannedData, trace[3].input.width,
                                       trace[3].input.height, given)
          IN  /\ out.width >= 1
              /\ out.height >= 1
              /\ out.x >= given.x
              /\ out.y >= given.y
              /\ out.x + out.width <= given.x + given.width
              /\ out.y + out.height <= given.y + given.height
              /\ out.x - given.x <= 5
              /\ out.y - given.y <= 5
              /\ (given.x + given.width) - (out.x + out.width) <= 5
              /\ (given.y + given.height) - (out.y + out.height) <= 5
              /\ \A y \in given.y..(given.y + given.height - 1) :
                     (y < out.y \/ y >= out.y + out.height)
                        => MostlySuspicious(ScannedData, BoxRow(y, given))

(***************************************************************************)
(* The batch (SpecBatch).                                                  *)
(***************************************************************************)
\* C6: the record of every image is either its own timeout failure or made
\* from the worker's response to that image's own request.
C6_RecordFromOwnResponse ==
    \A k \in DOMAIN results :
        \/ results[k].success /\ results[k].processedBlob = k
        \/ ~results[k].success /\ results[k].error = "Processing timeout"
        \/ /\ ~results[k].success
           /\ results[k].error = DecodeError
           /\ selectedFiles[k] = "corrupt"
        \/ /\ ~results[k].success
           /\ results[k].error = ProcessError
           /\ selectedFiles[k] = "unprocessable"
        \/ /\ ~results[k].success
           /\ results[k].error = EncodeError
           /\ selectedFiles[k] = "unencodable"

\* C7: a worker has at most one request in flight (posted and not yet
\* answered).
C7_OneImageInFlight ==
    Cardinality(Range(inbox) \cup decoding \cup encoding) <= 1

\* C8: a finished batch has one record per file, in input order; a file that
\* does not decode has a failure record with its file name and an error
\* message; every file of the batch was posted to the worker.
C8_OneRecordPerImage ==
    mainPc = "done"
       => /\ Len(results) = Len(selectedFiles)
          /\ \A k \in DOMAIN results :
               /\ results[k].originalFile = k
               /\ selectedFiles[k] = "corrupt"
                     => /\ ~results[k].success
                        /\ results[k].filename = <<"file.name", k>>
                        /\ results[k].error # ""
          /\ onmessage = Len(selectedFiles)


\* C23: the record of a file that does not decode is a failure that carries
\* the decode error, unless its promise timed out, and no record of another
\* file carries the decode error: the kind tells a decode failure from a
\* timeout and from an encode failure.
C23_DecodeFailureRecorded ==
    \A k \in DOMAIN results :
        /\ (selectedFiles[k] = "corrupt" /\ results[k].error # "Processing timeout")
              => ~results[k].success /\ results[k].error = DecodeError
        /\ results[k].error = DecodeError => selectedFiles[k] = "corrupt"


\* C27: an upload happens only while the user's consent stands; what is
\* uploaded is the first successful record of the batch, one image; a batch
\* without a successful record uploads nothing.
C27_UploadOnlyWithConsent ==
    [][(mainPc # "done" /\ mainPc' = "done")
          => /\ uploaded' # 0 => consent
             /\ uploaded' # 0
                   => /\ results'[uploaded'].success
                      /\ \A j \in 1..(uploaded' - 1) : ~results'[j].success
             /\ (\A k \in DOMAIN results' : ~results'[k].success) => uploaded' = 0]_vars


(***************************************************************************)
(* The worker's responses (SpecBatchFair).                                 *)
(***************************************************************************)
ResponsesTo(r) == { k \in DOMAIN posted : posted[k].req = r }

\* C29 as stated: every request the handler has started on is answered.
C29_AlwaysAnswered ==
    \A r \in 1..MaxBatch :
        (r \in decoding \cup encoding) ~> (ResponsesTo(r) # {})

\* C29: a request is answered at most once, by a success response if its
\* file decodes and encodes and else by an error response with the message of
\* the step that failed, and only when its handler is through; every request
\* the handler has started on is answered, unless the page terminates the
\* worker first.
C29_OneResponsePerRequest ==
    /\ [](\A r \in 1..MaxBatch :
            /\ Cardinality(ResponsesTo(r)) <= 1
            /\ ResponsesTo(r) # {} => r \notin Range(inbox) \cup decoding \cup encoding
            /\ \A k \in ResponsesTo(r) :
                 /\ posted[k].success <=> selectedFiles[r] = "image"
                 /\ posted[k].success <=> posted[k].error = ""
                 /\ selectedFiles[r] = "corrupt" => posted[k].error = DecodeError
                 /\ selectedFiles[r] = "unprocessable" => posted[k].error = ProcessError
                 /\ selectedFiles[r] = "unencodable" => posted[k].error = EncodeError)
    /\ \A r \in 1..MaxBatch :
         (r \in decoding \cup encoding) ~> (ResponsesTo(r) # {} \/ terminated)

\* C29 witness: three requests, failing at decode, in processImage and at
\* encode, each answered by its one error response
C29_Witness ==
    /\ selectedFiles = <<"corrupt", "unprocessable", "unencodable">>
    /\ posted = << [req |-> 1, success |-> FALSE, error |-> DecodeError],
                   [req |-> 2, success |-> FALSE, error |-> ProcessError],
                   [req |-> 3, success |-> FALSE, error |-> EncodeError] >>
    /\ ~terminated

=============================================================================
